---- MODULE Spec2Model ----
(***************************************************************************)
(* EscrowMarketplace (opnet-escrow-contract/src/escrow/EscrowMarketplace.ts).*)
(*                                                                         *)
(* The contract keeps no memory between calls: every field of every order   *)
(* lives in the host's persistent store, which has two slot shapes:        *)
(*   wide   : (u16 pointer, 32-byte sub-pointer) -> 256-bit word (StoredU256)*)
(*   narrow : u16 pointer -> address                         (StoredAddress)*)
(* A call runs to completion; a failed assert or checked addition reverts   *)
(* the whole call (abort -> revertOnError), and the host then discards every *)
(* write the call has made.                                                 *)
(*                                                                         *)
(* Numbers.  A u64 or u256 quantity is written <<x, y, z>> and stands for   *)
(* the integer x * 2^256 + y * 2^64 + z, with x, y, z small integers (z may *)
(* be negative: 2^64 - 1 is <<0, 1, -1>>, 2^256 - 1 is <<1, 0, -1>>).  Sums  *)
(* and comparisons of such triples are exact, so the 64-bit and 256-bit     *)
(* overflow checks are decided at their true widths.                        *)
(***************************************************************************)
EXTENDS Integers, Sequences, FiniteSets, TLC

\* ---- bounds of the model ------------------------------------------------
NumCallers == 3
MaxOrders == 2
BlockStep == 7
MaxAdvances == 1

\* ---- order states (EscrowMarketplace.ts:14-19) ---------------------------
STATE_CREATED == 1
STATE_ACCEPTED == 2
STATE_FUNDED == 3
STATE_COMPLETED == 4
STATE_CANCELLED == 5
STATE_DISPUTED == 6

\* ---- pointers (EscrowMarketplace.ts:47-56) -------------------------------
PTR_ORDER_COUNT == 1
PTR_PRICE == 10
PTR_LOCKED == 11
PTR_STATE == 12
PTR_DEADLINE == 13
PTR_ACCEPTED_AT == 14
PTR_SELLER_BASE == 100
PTR_BUYER_BASE == 10000

\* ---- numbers --------------------------------------------------------------
Num(n) == <<0, 0, n>>

Zero == Num(0)

U64_MAX == <<0, 1, -1>>

U256_MAX == <<1, 0, -1>>

NumAdd(a, b) == <<a[1] + b[1], a[2] + b[2], a[3] + b[3]>>

NumLess(a, b) ==
    \/ a[1] < b[1]
    \/ a[1] = b[1] /\ a[2] < b[2]
    \/ a[1] = b[1] /\ a[2] = b[2] /\ a[3] < b[3]

NumLeq(a, b) == a = b \/ NumLess(a, b)

\* u256.toU64(): the low 64 bits of the word
toU64(v) == IF v[3] >= 0 THEN <<0, 0, v[3]>> ELSE <<0, 1, v[3]>>

\* u256.fromU64(): zero extension
fromU64(v) == v

\* SafeMath.add64 reverts when the sum does not fit 64 bits
add64Overflows(a, b) == ~ NumLess(NumAdd(a, b), <<0, 1, 0>>)

add64(a, b) == NumAdd(a, b)

\* SafeMath.add (u256) reverts when the sum does not fit 256 bits
addOverflows(a, b) == ~ NumLess(NumAdd(a, b), <<1, 0, 0>>)

add(a, b) == NumAdd(a, b)

\* ---- storage addressing ---------------------------------------------------
RECURSIVE ShiftRightBytes(_, _)
ShiftRightBytes(z, n) == IF n = 0 THEN z ELSE ShiftRightBytes(z \div 256, n - 1)

\* subPtr(orderId): 24 zero bytes, then the order id big-endian in 8 bytes
subPtrBytes(z) ==
    [i \in 1..32 |-> IF i <= 24 THEN 0 ELSE ShiftRightBytes(z, 32 - i) % 256]

\* the sub-pointers of the order ids the model uses, computed once
SubPtrTable == [z \in 0..(MaxOrders + 1) |-> subPtrBytes(z)]

\* a sub-pointer that keeps only the low byte of the order id
subPtrLowByteOnly(orderId) ==
    [i \in 1..32 |-> IF i < 32 THEN 0 ELSE orderId[3] % 256]

subPtr(orderId) ==
    IF orderId[3] \in DOMAIN SubPtrTable THEN SubPtrTable[orderId[3]] ELSE subPtrBytes(orderId[3])

\* a seller pointer that leaves the order id out
sellerPtrShared(orderId) == PTR_SELLER_BASE % 65536

\* u16(PTR_SELLER_BASE + orderId), u16(PTR_BUYER_BASE + orderId)
sellerPtr(orderId) == (PTR_SELLER_BASE + orderId[3]) % 65536

buyerPtr(orderId) == (PTR_BUYER_BASE + orderId[3]) % 65536

\* new Uint8Array(32), the sub-pointer of the order counter
EmptySubPtr == [i \in 1..32 |-> 0]

\* the field kinds of the storage layout
OrderFieldKinds == {"seller", "buyer", "price", "locked", "state", "deadline", "acceptedAt"}

FieldKinds == OrderFieldKinds \cup {"orderCount"}

\* the slot a field of an order lives in, as the handlers address it: a wide
\* slot (pointer, sub-pointer) or a narrow slot (pointer); the order counter
\* has one slot whatever the order id
resolve(fieldKind, orderId) ==
    CASE fieldKind = "orderCount" -> <<"wide", PTR_ORDER_COUNT, EmptySubPtr>>
      [] fieldKind = "price"      -> <<"wide", PTR_PRICE, subPtr(orderId)>>
      [] fieldKind = "locked"     -> <<"wide", PTR_LOCKED, subPtr(orderId)>>
      [] fieldKind = "state"      -> <<"wide", PTR_STATE, subPtr(orderId)>>
      [] fieldKind = "deadline"   -> <<"wide", PTR_DEADLINE, subPtr(orderId)>>
      [] fieldKind = "acceptedAt" -> <<"wide", PTR_ACCEPTED_AT, subPtr(orderId)>>
      [] fieldKind = "seller"     -> <<"narrow", sellerPtr(orderId)>>
      [] fieldKind = "buyer"      -> <<"narrow", buyerPtr(orderId)>>

\* ---- the store ------------------------------------------------------------
\* the value of a StoredAddress slot that was never written
ZeroAddress == 0

\* Blockchain.tx.sender: the address that signed the transaction, never the
\* zero address
Callers == 1..NumCallers

\* wide, narrow : the persistent store;  height : Blockchain.block.number;
\* last : the most recent call and its outcome, as its caller sees it;
\* inputs : the argument values callers draw from (fixed along a behaviour)
VARIABLES wide, narrow, height, last, inputs

vars == <<wide, narrow, height, last, inputs>>

\* StoredU256(pointer, subPointer).value : an unwritten slot reads as zero
LoadU256(w, pointer, sub) ==
    IF <<pointer, sub>> \in DOMAIN w THEN w[<<pointer, sub>>] ELSE Zero

StoreU256(w, pointer, sub, v) ==
    [k \in DOMAIN w \cup {<<pointer, sub>>} |-> IF k = <<pointer, sub>> THEN v ELSE w[k]]

\* StoredAddress(pointer).value
LoadAddress(n, pointer) == IF pointer \in DOMAIN n THEN n[pointer] ELSE ZeroAddress

StoreAddress(n, pointer, a) ==
    [k \in DOMAIN n \cup {pointer} |-> IF k = pointer THEN a ELSE n[k]]

\* this._orderCount.value
orderCountValue(w) == LoadU256(w, PTR_ORDER_COUNT, EmptySubPtr)

\* ---- inputs ----------------------------------------------------------------
PriceInputs == {Zero, Num(300), Num(500)}

\* prices whose sums leave 256 bits
BigPriceInputs == {Zero, Num(300), Num(500), U256_MAX}

DeadlineInputs == {Num(5), Num(6), U64_MAX}

\* deadlines of 6 and 7 blocks: with blocks advancing by BlockStep = 7 an order
\* is seen before, exactly at and after its deadline
DeadlineSweepPrices == {Zero, Num(300)}

DeadlineSweepInputs == {Num(5), Num(6), Num(7), U64_MAX}

OrderIdInputs == {Num(i) : i \in 0..(MaxOrders + 1)}

\* Blockchain.tx.sender.  Addresses are opaque and only ever compared for
\* equality, so behaviours are the same up to renaming them: a caller is one of
\* the addresses already recorded in the store, or the first address not yet
\* recorded (standing for any address that is neither seller nor buyer so far).
RecordedAddresses(n) == {n[k] : k \in DOMAIN n}

SenderInputs(n) ==
    {a \in Callers : \A b \in Callers : b < a => b \in RecordedAddresses(n)}

NoRet == <<>>

Call(op, sender, orderId, ok, ret) ==
    [op |-> op, sender |-> sender, orderId |-> orderId, ok |-> ok, ret |-> ret]

\* A failed assert reverts the call (revertOnError): nothing is written, and the
\* caller sees the failure of the operation.
Reverted(op) == Call(op, ZeroAddress, Zero, FALSE, NoRet)

\* ---- constructor + onDeployment -------------------------------------------
Deployed ==
    /\ wide = StoreU256(<<>>, PTR_ORDER_COUNT, EmptySubPtr, Zero)
    /\ narrow = <<>>
    /\ height = 1
    /\ last = Call("deploy", ZeroAddress, Zero, TRUE, NoRet)

Init ==
    /\ Deployed
    /\ inputs = [price |-> PriceInputs, deadlineBlocks |-> DeadlineInputs]

InitBigPrice ==
    /\ Deployed
    /\ inputs = [price |-> BigPriceInputs, deadlineBlocks |-> DeadlineInputs]

\* valid prices and deadlines only, up to the largest u64: createOrder can fail
\* on the 64-bit sum alone
OverflowDeadlineInputs == {Num(6), <<0, 1, -2>>, U64_MAX}

InitOverflow ==
    /\ Deployed
    /\ inputs = [price |-> {Num(300)}, deadlineBlocks |-> OverflowDeadlineInputs]

\* one valid price and one valid deadline
InitPair ==
    /\ Deployed
    /\ inputs = [price |-> {Zero, Num(300)}, deadlineBlocks |-> {Num(6)}]

InitDeadline ==
    /\ Deployed
    /\ inputs = [price |-> DeadlineSweepPrices, deadlineBlocks |-> DeadlineSweepInputs]

\* ---- createOrder ------------------------------------------------------------
\* Every condition under which the call goes through: the two asserts of lines
\* 86-87 and the two SafeMath.add64 of lines 89 and 102.  The second add64 runs
\* after the writes of lines 90-100; when it reverts, those writes are discarded
\* with the call.
\* createOrder without the 'Price must be > 0' assert
createOrderAssertsAnyPrice(w, price, deadlineBlocks) ==
    /\ NumLeq(Num(6), deadlineBlocks)
    /\ ~ add64Overflows(toU64(orderCountValue(w)), Num(1))
    /\ ~ add64Overflows(Num(height), deadlineBlocks)

\* createOrder that adds the deadline without the overflow check
createOrderAssertsUncheckedDeadline(w, price, deadlineBlocks) ==
    /\ NumLess(Zero, price)
    /\ NumLeq(Num(6), deadlineBlocks)
    /\ ~ add64Overflows(toU64(orderCountValue(w)), Num(1))

createOrderAsserts(w, price, deadlineBlocks) ==
    /\ NumLess(Zero, price)
    /\ NumLeq(Num(6), deadlineBlocks)
    /\ ~ add64Overflows(toU64(orderCountValue(w)), Num(1))
    /\ ~ add64Overflows(Num(height), deadlineBlocks)

createOrderId(w) == add64(toU64(orderCountValue(w)), Num(1))

\* createOrder that does not persist the new order counter
createOrderWideForgetsCounter(w, price, deadlineBlocks) ==
    LET orderId == createOrderId(w)
        ptr == subPtr(orderId)
        w2 == StoreU256(w, PTR_PRICE, ptr, price)
        w3 == StoreU256(w2, PTR_LOCKED, ptr, Zero)
        w4 == StoreU256(w3, PTR_STATE, ptr, fromU64(Num(STATE_CREATED)))
        w5 == StoreU256(w4, PTR_DEADLINE, ptr, fromU64(add64(Num(height), deadlineBlocks)))
    IN  StoreU256(w5, PTR_ACCEPTED_AT, ptr, Zero)

createOrderWide(w, price, deadlineBlocks) ==
    LET orderId == createOrderId(w)
        ptr == subPtr(orderId)
        w1 == StoreU256(w, PTR_ORDER_COUNT, EmptySubPtr, fromU64(orderId))
        w2 == StoreU256(w1, PTR_PRICE, ptr, price)
        w3 == StoreU256(w2, PTR_LOCKED, ptr, Zero)
        w4 == StoreU256(w3, PTR_STATE, ptr, fromU64(Num(STATE_CREATED)))
        w5 == StoreU256(w4, PTR_DEADLINE, ptr, fromU64(add64(Num(height), deadlineBlocks)))
    IN  StoreU256(w5, PTR_ACCEPTED_AT, ptr, Zero)

createOrderNarrow(w, n, sender) == StoreAddress(n, sellerPtr(createOrderId(w)), sender)

createOrder ==
    /\ NumLess(toU64(orderCountValue(wide)), Num(MaxOrders))
    /\ \/ \E sender \in SenderInputs(narrow), price \in inputs.price, deadlineBlocks \in inputs.deadlineBlocks :
             /\ createOrderAsserts(wide, price, deadlineBlocks)
             /\ wide' = createOrderWide(wide, price, deadlineBlocks)
             /\ narrow' = createOrderNarrow(wide, narrow, sender)
             /\ last' = Call("createOrder", sender, Zero, TRUE, createOrderId(wide))
       \/ /\ ~ \A price \in inputs.price, deadlineBlocks \in inputs.deadlineBlocks :
                  createOrderAsserts(wide, price, deadlineBlocks)
          /\ UNCHANGED <<wide, narrow>>
          /\ last' = Reverted("createOrder")
    /\ UNCHANGED <<height, inputs>>

\* ---- acceptOrder ------------------------------------------------------------
\* acceptOrder that rejects a call made exactly at the deadline
acceptOrderAssertsStrict(w, orderId) ==
    /\ toU64(LoadU256(w, PTR_STATE, subPtr(orderId))) = Num(STATE_CREATED)
    /\ NumLess(Num(height), toU64(LoadU256(w, PTR_DEADLINE, subPtr(orderId))))

\* acceptOrder without the 'Order deadline passed' assert
acceptOrderAssertsNoDeadline(w, orderId) ==
    toU64(LoadU256(w, PTR_STATE, subPtr(orderId))) = Num(STATE_CREATED)

acceptOrderAsserts(w, orderId) ==
    /\ toU64(LoadU256(w, PTR_STATE, subPtr(orderId))) = Num(STATE_CREATED)
    /\ NumLeq(Num(height), toU64(LoadU256(w, PTR_DEADLINE, subPtr(orderId))))

\* acceptOrder that does not record the height of acceptance
acceptOrderWideNoTimestamp(w, orderId) ==
    StoreU256(w, PTR_STATE, subPtr(orderId), fromU64(Num(STATE_ACCEPTED)))

acceptOrderWide(w, orderId) ==
    LET ptr == subPtr(orderId)
        w1 == StoreU256(w, PTR_STATE, ptr, fromU64(Num(STATE_ACCEPTED)))
    IN  StoreU256(w1, PTR_ACCEPTED_AT, ptr, fromU64(Num(height)))

\* acceptOrder that forgets to record the buyer
acceptOrderNarrowSkipsBuyer(n, sender, orderId) == n

\* acceptOrder that records every buyer in the one slot PTR_BUYER_BASE
acceptOrderNarrowOneSlot(n, sender, orderId) == StoreAddress(n, PTR_BUYER_BASE % 65536, sender)

acceptOrderNarrow(n, sender, orderId) == StoreAddress(n, buyerPtr(orderId), sender)

acceptOrder ==
    /\ \/ \E sender \in SenderInputs(narrow), orderId \in OrderIdInputs :
             /\ acceptOrderAsserts(wide, orderId)
             /\ wide' = acceptOrderWide(wide, orderId)
             /\ narrow' = acceptOrderNarrow(narrow, sender, orderId)
             /\ last' = Call("acceptOrder", sender, orderId, TRUE, NoRet)
       \/ /\ ~ \A orderId \in OrderIdInputs : acceptOrderAsserts(wide, orderId)
          /\ UNCHANGED <<wide, narrow>>
          /\ last' = Reverted("acceptOrder")
    /\ UNCHANGED <<height, inputs>>

\* ---- fundOrder --------------------------------------------------------------
\* fundOrder without the 'Only buyer can fund' assert
fundOrderAssertsAnyCaller(w, n, sender, orderId) ==
    toU64(LoadU256(w, PTR_STATE, subPtr(orderId))) = Num(STATE_ACCEPTED)

\* fundOrder that also accepts an order that is already Funded
fundOrderAssertsAlsoFunded(w, n, sender, orderId) ==
    /\ \/ toU64(LoadU256(w, PTR_STATE, subPtr(orderId))) = Num(STATE_ACCEPTED)
       \/ toU64(LoadU256(w, PTR_STATE, subPtr(orderId))) = Num(STATE_FUNDED)
    /\ LoadAddress(n, buyerPtr(orderId)) = sender

fundOrderAsserts(w, n, sender, orderId) ==
    /\ toU64(LoadU256(w, PTR_STATE, subPtr(orderId))) = Num(STATE_ACCEPTED)
    /\ LoadAddress(n, buyerPtr(orderId)) = sender

\* fundOrder that moves the state but locks nothing
fundOrderWideStateOnly(w, orderId) ==
    StoreU256(w, PTR_STATE, subPtr(orderId), fromU64(Num(STATE_FUNDED)))

fundOrderWide(w, orderId) ==
    LET ptr == subPtr(orderId)
        w1 == StoreU256(w, PTR_LOCKED, ptr, LoadU256(w, PTR_PRICE, ptr))
    IN  StoreU256(w1, PTR_STATE, ptr, fromU64(Num(STATE_FUNDED)))

fundOrder ==
    /\ \/ \E sender \in SenderInputs(narrow), orderId \in OrderIdInputs :
             /\ fundOrderAsserts(wide, narrow, sender, orderId)
             /\ wide' = fundOrderWide(wide, orderId)
             /\ last' = Call("fundOrder", sender, orderId, TRUE, NoRet)
       \/ /\ ~ \A sender \in SenderInputs(narrow), orderId \in OrderIdInputs :
                  fundOrderAsserts(wide, narrow, sender, orderId)
          /\ UNCHANGED wide
          /\ last' = Reverted("fundOrder")
    /\ UNCHANGED <<narrow, height, inputs>>

\* ---- confirmCompletion ------------------------------------------------------
confirmCompletionAsserts(w, n, sender, orderId) ==
    /\ toU64(LoadU256(w, PTR_STATE, subPtr(orderId))) = Num(STATE_FUNDED)
    /\ LoadAddress(n, buyerPtr(orderId)) = sender

confirmCompletionWide(w, orderId) ==
    LET ptr == subPtr(orderId)
        w1 == StoreU256(w, PTR_LOCKED, ptr, Zero)
    IN  StoreU256(w1, PTR_STATE, ptr, fromU64(Num(STATE_COMPLETED)))

confirmCompletion ==
    /\ \/ \E sender \in SenderInputs(narrow), orderId \in OrderIdInputs :
             /\ confirmCompletionAsserts(wide, narrow, sender, orderId)
             /\ wide' = confirmCompletionWide(wide, orderId)
             /\ last' = Call("confirmCompletion", sender, orderId, TRUE, NoRet)
       \/ /\ ~ \A sender \in SenderInputs(narrow), orderId \in OrderIdInputs :
                  confirmCompletionAsserts(wide, narrow, sender, orderId)
          /\ UNCHANGED wide
          /\ last' = Reverted("confirmCompletion")
    /\ UNCHANGED <<narrow, height, inputs>>

\* ---- cancelOrder ------------------------------------------------------------
\* cancelOrder that does not accept a Disputed order
cancelOrderAssertsNoDisputed(w, n, sender, orderId) ==
    LET state == toU64(LoadU256(w, PTR_STATE, subPtr(orderId)))
    IN  /\ \/ state = Num(STATE_CREATED)
           \/ state = Num(STATE_ACCEPTED)
           \/ state = Num(STATE_FUNDED)
        /\ \/ LoadAddress(n, sellerPtr(orderId)) = sender
           \/ LoadAddress(n, buyerPtr(orderId)) = sender

\* cancelOrder that also accepts a Completed order
cancelOrderAssertsFromCompleted(w, n, sender, orderId) ==
    LET state == toU64(LoadU256(w, PTR_STATE, subPtr(orderId)))
    IN  /\ \/ state = Num(STATE_CREATED)
           \/ state = Num(STATE_ACCEPTED)
           \/ state = Num(STATE_FUNDED)
           \/ state = Num(STATE_COMPLETED)
           \/ state = Num(STATE_DISPUTED)
        /\ \/ LoadAddress(n, sellerPtr(orderId)) = sender
           \/ LoadAddress(n, buyerPtr(orderId)) = sender

cancelOrderAsserts(w, n, sender, orderId) ==
    LET state == toU64(LoadU256(w, PTR_STATE, subPtr(orderId)))
    IN  /\ \/ state = Num(STATE_CREATED)
           \/ state = Num(STATE_ACCEPTED)
           \/ state = Num(STATE_FUNDED)
           \/ state = Num(STATE_DISPUTED)
        /\ \/ LoadAddress(n, sellerPtr(orderId)) = sender
           \/ LoadAddress(n, buyerPtr(orderId)) = sender

\* cancelOrder that forgets to zero the locked amount
cancelOrderWideKeepsLocked(w, orderId) ==
    StoreU256(w, PTR_STATE, subPtr(orderId), fromU64(Num(STATE_CANCELLED)))

cancelOrderWide(w, orderId) ==
    LET ptr == subPtr(orderId)
        w1 == StoreU256(w, PTR_LOCKED, ptr, Zero)
    IN  StoreU256(w1, PTR_STATE, ptr, fromU64(Num(STATE_CANCELLED)))

cancelOrder ==
    /\ \/ \E sender \in SenderInputs(narrow), orderId \in OrderIdInputs :
             /\ cancelOrderAsserts(wide, narrow, sender, orderId)
             /\ wide' = cancelOrderWide(wide, orderId)
             /\ last' = Call("cancelOrder", sender, orderId, TRUE, NoRet)
       \/ /\ ~ \A sender \in SenderInputs(narrow), orderId \in OrderIdInputs :
                  cancelOrderAsserts(wide, narrow, sender, orderId)
          /\ UNCHANGED wide
          /\ last' = Reverted("cancelOrder")
    /\ UNCHANGED <<narrow, height, inputs>>

\* ---- openDispute ------------------------------------------------------------
openDisputeAsserts(w, n, sender, orderId) ==
    /\ toU64(LoadU256(w, PTR_STATE, subPtr(orderId))) = Num(STATE_FUNDED)
    /\ \/ LoadAddress(n, sellerPtr(orderId)) = sender
       \/ LoadAddress(n, buyerPtr(orderId)) = sender

openDisputeWide(w, orderId) ==
    StoreU256(w, PTR_STATE, subPtr(orderId), fromU64(Num(STATE_DISPUTED)))

openDispute ==
    /\ \/ \E sender \in SenderInputs(narrow), orderId \in OrderIdInputs :
             /\ openDisputeAsserts(wide, narrow, sender, orderId)
             /\ wide' = openDisputeWide(wide, orderId)
             /\ last' = Call("openDispute", sender, orderId, TRUE, NoRet)
       \/ /\ ~ \A sender \in SenderInputs(narrow), orderId \in OrderIdInputs :
                  openDisputeAsserts(wide, narrow, sender, orderId)
          /\ UNCHANGED wide
          /\ last' = Reverted("openDispute")
    /\ UNCHANGED <<narrow, height, inputs>>

\* ---- one call on an order, as a function of the store --------------------------
\* the outcome of op(orderId) sent by sender on the store (w, n) at the current
\* height: the store after the handler's writes, or the same store when an
\* assert reverts the call
Outcome(ok, w, n) == [ok |-> ok, wide |-> w, narrow |-> n]

callOrderOp(op, w, n, sender, orderId) ==
    CASE op = "acceptOrder" ->
            IF acceptOrderAsserts(w, orderId)
            THEN Outcome(TRUE, acceptOrderWide(w, orderId), acceptOrderNarrow(n, sender, orderId))
            ELSE Outcome(FALSE, w, n)
      [] op = "fundOrder" ->
            IF fundOrderAsserts(w, n, sender, orderId)
            THEN Outcome(TRUE, fundOrderWide(w, orderId), n)
            ELSE Outcome(FALSE, w, n)
      [] op = "confirmCompletion" ->
            IF confirmCompletionAsserts(w, n, sender, orderId)
            THEN Outcome(TRUE, confirmCompletionWide(w, orderId), n)
            ELSE Outcome(FALSE, w, n)
      [] op = "cancelOrder" ->
            IF cancelOrderAsserts(w, n, sender, orderId)
            THEN Outcome(TRUE, cancelOrderWide(w, orderId), n)
            ELSE Outcome(FALSE, w, n)
      [] op = "openDispute" ->
            IF openDisputeAsserts(w, n, sender, orderId)
            THEN Outcome(TRUE, openDisputeWide(w, orderId), n)
            ELSE Outcome(FALSE, w, n)

\* ---- the handlers statement by statement ---------------------------------------
\* A handler as the sequence of its checks (assert, SafeMath.add64) and storage
\* writes in source order, each with its source line; a call runs the sequence
\* up to its first failing check, which reverts it.
Check(line, ok) == [kind |-> "check", line |-> line, ok |-> ok]

Write(line) == [kind |-> "write", line |-> line, ok |-> TRUE]

createOrderSteps(w, price, deadlineBlocks) ==
    << Check(86, NumLess(Zero, price)),
       Check(87, NumLeq(Num(6), deadlineBlocks)),
       Check(89, ~ add64Overflows(toU64(orderCountValue(w)), Num(1))),
       Write(90),
       Write(95),
       Write(98),
       Write(99),
       Write(100),
       Check(102, ~ add64Overflows(Num(height), deadlineBlocks)),
       Write(101),
       Write(104) >>

acceptOrderSteps(w, orderId) ==
    << Check(119, toU64(LoadU256(w, PTR_STATE, subPtr(orderId))) = Num(STATE_CREATED)),
       Check(120, NumLeq(Num(height), toU64(LoadU256(w, PTR_DEADLINE, subPtr(orderId))))),
       Write(125),
       Write(126),
       Write(127) >>

fundOrderSteps(w, n, sender, orderId) ==
    << Check(142, toU64(LoadU256(w, PTR_STATE, subPtr(orderId))) = Num(STATE_ACCEPTED)),
       Check(143, LoadAddress(n, buyerPtr(orderId)) = sender),
       Write(148),
       Write(149) >>

confirmCompletionSteps(w, n, sender, orderId) ==
    << Check(164, toU64(LoadU256(w, PTR_STATE, subPtr(orderId))) = Num(STATE_FUNDED)),
       Check(165, LoadAddress(n, buyerPtr(orderId)) = sender),
       Write(170),
       Write(171) >>

cancelOrderSteps(w, n, sender, orderId) ==
    LET state == toU64(LoadU256(w, PTR_STATE, subPtr(orderId)))
    IN  << Check(187, state \in {Num(STATE_CREATED), Num(STATE_ACCEPTED),
                                 Num(STATE_FUNDED), Num(STATE_DISPUTED)}),
           Check(194, \/ LoadAddress(n, sellerPtr(orderId)) = sender
                      \/ LoadAddress(n, buyerPtr(orderId)) = sender),
           Write(200),
           Write(201) >>

openDisputeSteps(w, n, sender, orderId) ==
    << Check(216, toU64(LoadU256(w, PTR_STATE, subPtr(orderId))) = Num(STATE_FUNDED)),
       Check(217, \/ LoadAddress(n, sellerPtr(orderId)) = sender
                  \/ LoadAddress(n, buyerPtr(orderId)) = sender),
       Write(223) >>

\* the statements a call executes: all of them, or those up to and including
\* the first failing check
Executed(steps) ==
    LET failing == {i \in DOMAIN steps : ~ steps[i].ok}
    IN  IF failing = {} THEN steps
        ELSE SubSeq(steps, 1, CHOOSE i \in failing : \A j \in failing : i <= j)

\* the call reverts: its last executed statement is a failing check
Aborts(steps) == \E i \in DOMAIN steps : ~ steps[i].ok

\* ---- getOrder (read-only) ---------------------------------------------------
\* the fields as lines 246-252 read them
sellerOf(n, orderId) == LoadAddress(n, sellerPtr(orderId))

buyerOf(n, orderId) == LoadAddress(n, buyerPtr(orderId))

priceOf(w, orderId) == LoadU256(w, PTR_PRICE, subPtr(orderId))

lockedOf(w, orderId) == LoadU256(w, PTR_LOCKED, subPtr(orderId))

stateOf(w, orderId) == toU64(LoadU256(w, PTR_STATE, subPtr(orderId)))[3] % 256

deadlineOf(w, orderId) == toU64(LoadU256(w, PTR_DEADLINE, subPtr(orderId)))

acceptedAtOf(w, orderId) == toU64(LoadU256(w, PTR_ACCEPTED_AT, subPtr(orderId)))

getOrder(w, n, orderId) ==
    [orderId    |-> orderId,
     seller     |-> sellerOf(n, orderId),
     buyer      |-> buyerOf(n, orderId),
     price      |-> priceOf(w, orderId),
     locked     |-> lockedOf(w, orderId),
     state      |-> stateOf(w, orderId),
     deadline   |-> deadlineOf(w, orderId),
     acceptedAt |-> acceptedAtOf(w, orderId)]

\* ---- getEscrowStats (read-only) ---------------------------------------------
\* a scan that leaves Disputed orders out of the sum
RECURSIVE statsLoopFundedOnly(_, _, _, _)
statsLoopFundedOnly(w, i, count, totalLocked) ==
    IF ~ NumLeq(i, count)
    THEN [ok |-> TRUE, totalLocked |-> totalLocked]
    ELSE LET state == toU64(LoadU256(w, PTR_STATE, subPtr(i)))
             locked == LoadU256(w, PTR_LOCKED, subPtr(i))
         IN  IF state = Num(STATE_FUNDED)
             THEN IF addOverflows(totalLocked, locked)
                  THEN [ok |-> FALSE, totalLocked |-> Zero]
                  ELSE statsLoopFundedOnly(w, NumAdd(i, Num(1)), count, add(totalLocked, locked))
             ELSE statsLoopFundedOnly(w, NumAdd(i, Num(1)), count, totalLocked)

\* The loop of lines 276-281 from index i on; SafeMath.add reverts the call
\* when the running sum leaves 256 bits.
RECURSIVE statsLoop(_, _, _, _)
statsLoop(w, i, count, totalLocked) ==
    IF ~ NumLeq(i, count)
    THEN [ok |-> TRUE, totalLocked |-> totalLocked]
    ELSE LET state == toU64(LoadU256(w, PTR_STATE, subPtr(i)))
             locked == LoadU256(w, PTR_LOCKED, subPtr(i))
         IN  IF state = Num(STATE_FUNDED) \/ state = Num(STATE_DISPUTED)
             THEN IF addOverflows(totalLocked, locked)
                  THEN [ok |-> FALSE, totalLocked |-> Zero]
                  ELSE statsLoop(w, NumAdd(i, Num(1)), count, add(totalLocked, locked))
             ELSE statsLoop(w, NumAdd(i, Num(1)), count, totalLocked)

getEscrowStatsResult(w) ==
    LET count == toU64(orderCountValue(w))
        r == statsLoop(w, Num(1), count, Zero)
    IN  [ok |-> r.ok, ret |-> IF r.ok THEN <<r.totalLocked, r.totalLocked, count>> ELSE NoRet]

getEscrowStats ==
    /\ LET r == getEscrowStatsResult(wide)
       IN  last' = Call("getEscrowStats", ZeroAddress, Zero, r.ok, r.ret)
    /\ UNCHANGED <<wide, narrow, height, inputs>>

\* ---- the host mines blocks: Blockchain.block.number never decreases ----------
AdvanceBlock ==
    /\ height + BlockStep <= 1 + MaxAdvances * BlockStep
    /\ height' = height + BlockStep
    /\ last' = Call("block", ZeroAddress, Zero, TRUE, NoRet)
    /\ UNCHANGED <<wide, narrow, inputs>>

Next ==
    \/ createOrder
    \/ acceptOrder
    \/ fundOrder
    \/ confirmCompletion
    \/ cancelOrder
    \/ openDispute
    \/ getEscrowStats
    \/ AdvanceBlock

Spec == Init /\ [][Next]_vars

SpecBigPrice == InitBigPrice /\ [][Next]_vars

SpecDeadline == InitDeadline /\ [][Next]_vars

SpecOverflow == InitOverflow /\ [][Next]_vars

SpecPair == InitPair /\ [][Next]_vars

\* ---- the addressing layer on its own ------------------------------------------
\* the last order id the two narrow ranges keep apart: the seller pointers
\* 100 + id stay below the buyer base
MaxSupportedId == PTR_BUYER_BASE - PTR_SELLER_BASE - 1

\* order ids at the edges of the byte positions of subPtr and of the range
ResolveIdInputs == {1, 2, 255, 256, 257, MaxSupportedId - 1, MaxSupportedId}

ResolveInputs == {[fieldKind |-> k, orderId |-> Num(i)] : k \in FieldKinds, i \in ResolveIdInputs}

\* two (fieldKind, orderId) pairs are handed to the addressing layer
InitResolve ==
    /\ Deployed
    /\ \E a, b \in ResolveInputs : inputs = [a |-> a, b |-> b]

resolveKeys ==
    /\ last.op = "deploy"
    /\ last' = Call("resolve", ZeroAddress, Zero, TRUE,
                    <<resolve(inputs.a.fieldKind, inputs.a.orderId),
                      resolve(inputs.b.fieldKind, inputs.b.orderId)>>)
    /\ UNCHANGED <<wide, narrow, height, inputs>>

SpecResolve == InitResolve /\ [][resolveKeys]_vars

\* ==== properties =============================================================
AllIds == 0..(MaxOrders + 1)

OrderCount == toU64(orderCountValue(wide))[3]

ExistingIds == 1..OrderCount

\* the fields of an order as getOrder reports them, now and after the step
Seller(id) == sellerOf(narrow, Num(id))

Buyer(id) == buyerOf(narrow, Num(id))

Price(id) == priceOf(wide, Num(id))

Locked(id) == lockedOf(wide, Num(id))

State(id) == stateOf(wide, Num(id))

Deadline(id) == deadlineOf(wide, Num(id))

AcceptedAt(id) == acceptedAtOf(wide, Num(id))

SellerNext(id) == sellerOf(narrow', Num(id))

BuyerNext(id) == buyerOf(narrow', Num(id))

PriceNext(id) == priceOf(wide', Num(id))

LockedNext(id) == lockedOf(wide', Num(id))

StateNext(id) == stateOf(wide', Num(id))

DeadlineNext(id) == deadlineOf(wide', Num(id))

AcceptedAtNext(id) == acceptedAtOf(wide', Num(id))

OrderOps == {"acceptOrder", "fundOrder", "confirmCompletion", "cancelOrder", "openDispute"}

\* C1: for every order id, a nonzero locked amount occurs only in state Funded
\* or Disputed, and then it equals the order's price.
C1_LockedOnlyWhenFundedOrDisputed ==
    \A id \in AllIds :
        Locked(id) # Zero =>
            /\ State(id) \in {STATE_FUNDED, STATE_DISPUTED}
            /\ Locked(id) = Price(id)

\* one order Funded and another Disputed, both holding their price
C1_Witness ==
    \E i, j \in ExistingIds :
        /\ State(i) = STATE_FUNDED /\ Locked(i) # Zero
        /\ State(j) = STATE_DISPUTED /\ Locked(j) # Zero

\* C2: fundOrder and confirmCompletion succeed only for the recorded buyer,
\* cancelOrder and openDispute only for the recorded seller or buyer; the state
\* or locked amount of an existing order changes only by a successful call on
\* that order made by its seller or buyer, or by a successful acceptOrder on it
\* while it is Created.
C2_Authorization ==
    [][ LET target == last'.orderId
        IN  /\ (last'.ok /\ last'.op \in {"fundOrder", "confirmCompletion"})
                  => last'.sender = buyerOf(narrow, target)
            /\ (last'.ok /\ last'.op \in {"cancelOrder", "openDispute"})
                  => last'.sender \in {sellerOf(narrow, target), buyerOf(narrow, target)}
            /\ \A id \in ExistingIds :
                  (\/ State(id) # StateNext(id)
                   \/ Locked(id) # LockedNext(id))
                  => /\ last'.ok
                     /\ last'.op \in OrderOps
                     /\ last'.orderId = Num(id)
                     /\ \/ last'.sender \in {Seller(id), Buyer(id)}
                        \/ last'.op = "acceptOrder" /\ State(id) = STATE_CREATED
      ]_vars

\* the buyer, who is not the seller, has just funded an order while a third
\* address is recorded elsewhere
C2_Witness ==
    /\ last.op = "fundOrder" /\ last.ok
    /\ last.sender = buyerOf(narrow, last.orderId)
    /\ last.sender # sellerOf(narrow, last.orderId)
    /\ \E a \in RecordedAddresses(narrow) :
          a \notin {buyerOf(narrow, last.orderId), sellerOf(narrow, last.orderId)}

\* createOrder rejects price 0 and fewer than 6 deadline blocks, and accepts 6
C4_RejectedInputs ==
    /\ \A price \in BigPriceInputs, deadlineBlocks \in DeadlineSweepInputs :
          (price = Zero \/ NumLess(deadlineBlocks, Num(6)))
              => ~ createOrderAsserts(wide, price, deadlineBlocks)
    /\ \A price \in BigPriceInputs \ {Zero} : createOrderAsserts(wide, price, Num(6))

\* C4: createOrder with price 0 or deadlineBlocks < 6 aborts (and 6 blocks are
\* accepted); a call that aborts leaves the order counter and every field of
\* every order as they were.
C4_FailedCallChangesNothing ==
    /\ []C4_RejectedInputs
    /\ [][ ~ last'.ok =>
              /\ wide' = wide
              /\ narrow' = narrow
              /\ \A id \in AllIds :
                    getOrder(wide', narrow', Num(id)) = getOrder(wide, narrow, Num(id))
         ]_vars

\* a fundOrder has just failed on a store holding an Accepted order, and an
\* acceptOrder can fail because the deadline of a Created order has passed
C4_Witness ==
    /\ last.op = "fundOrder" /\ ~ last.ok
    /\ \E id \in ExistingIds : State(id) = STATE_ACCEPTED
    /\ \E id \in ExistingIds :
          State(id) = STATE_CREATED /\ NumLess(Deadline(id), Num(height))

\* C5 as stated: for every existing order the buyer is the zero address if and
\* only if the order's state is Created.
C5_BuyerZeroIffCreated ==
    \A id \in ExistingIds : Buyer(id) = ZeroAddress <=> State(id) = STATE_CREATED

\* C5 (amended): for every existing order, a Created order has the zero buyer,
\* and an order with the zero buyer is Created or Cancelled (cancelOrder on a
\* Created order leaves the buyer unset).
C5_BuyerZeroOnlyCreatedOrCancelled ==
    \A id \in ExistingIds :
        /\ State(id) = STATE_CREATED => Buyer(id) = ZeroAddress
        /\ Buyer(id) = ZeroAddress => State(id) \in {STATE_CREATED, STATE_CANCELLED}

\* an order cancelled before acceptance next to an order that has a buyer
C5_Witness ==
    \E i, j \in ExistingIds :
        /\ State(i) = STATE_CANCELLED /\ Buyer(i) = ZeroAddress
        /\ State(j) # STATE_CREATED /\ Buyer(j) # ZeroAddress

\* an edge of the order life cycle, taken by the operation that owns it
C3_Edge(a, b, id) ==
    \/ a = 0 /\ b = STATE_CREATED /\ last'.op = "createOrder" /\ last'.ret = Num(id)
    \/ /\ last'.orderId = Num(id)
       /\ \/ a = STATE_CREATED /\ b = STATE_ACCEPTED /\ last'.op = "acceptOrder"
          \/ a = STATE_ACCEPTED /\ b = STATE_FUNDED /\ last'.op = "fundOrder"
          \/ a = STATE_FUNDED /\ b = STATE_COMPLETED /\ last'.op = "confirmCompletion"
          \/ a = STATE_FUNDED /\ b = STATE_DISPUTED /\ last'.op = "openDispute"
          \/ /\ a \in {STATE_CREATED, STATE_ACCEPTED, STATE_FUNDED, STATE_DISPUTED}
             /\ b = STATE_CANCELLED /\ last'.op = "cancelOrder"

\* on a terminal order the checks of all five operations fail for every caller
C3_TerminalRejectsAll ==
    \A id \in AllIds :
        State(id) \in {STATE_COMPLETED, STATE_CANCELLED} =>
            \A sender \in Callers :
                /\ ~ acceptOrderAsserts(wide, Num(id))
                /\ ~ fundOrderAsserts(wide, narrow, sender, Num(id))
                /\ ~ confirmCompletionAsserts(wide, narrow, sender, Num(id))
                /\ ~ cancelOrderAsserts(wide, narrow, sender, Num(id))
                /\ ~ openDisputeAsserts(wide, narrow, sender, Num(id))

\* C3: an order's state changes only along nonexistent -> Created (createOrder),
\* Created -> Accepted (acceptOrder), Accepted -> Funded (fundOrder),
\* Funded -> Completed (confirmCompletion), Funded -> Disputed (openDispute) and
\* {Created, Accepted, Funded, Disputed} -> Cancelled (cancelOrder); on a
\* Completed or Cancelled order every acceptOrder, fundOrder, confirmCompletion,
\* cancelOrder and openDispute fails, for every caller, and its state stays.
C3_Transitions ==
    /\ []C3_TerminalRejectsAll
    /\ [][ \A id \in AllIds :
              /\ State(id) # StateNext(id)
                    => last'.ok /\ C3_Edge(State(id), StateNext(id), id)
              /\ State(id) \in {STATE_COMPLETED, STATE_CANCELLED}
                    => /\ StateNext(id) = State(id)
                       /\ ~ (last'.ok /\ last'.op \in OrderOps /\ last'.orderId = Num(id))
         ]_vars

\* one order Completed, the other Cancelled after it had been accepted
C3_Witness ==
    \E i, j \in ExistingIds :
        /\ State(i) = STATE_COMPLETED
        /\ State(j) = STATE_CANCELLED /\ Buyer(j) # ZeroAddress

\* the checks of acceptOrder pass exactly for a Created order within its deadline
C6_AcceptableIffCreatedInTime ==
    \A id \in AllIds :
        acceptOrderAsserts(wide, Num(id))
            <=> (State(id) = STATE_CREATED /\ NumLeq(Num(height), Deadline(id)))

\* C6: acceptOrder(id), by any caller, passes its checks exactly when the order
\* is Created and the current height is at most its deadline; a successful
\* acceptOrder makes the order Accepted with buyer = caller and acceptedAt = the
\* current height, and no order ever returns to Created, so a second acceptOrder
\* on it fails.
C6_AcceptOrder ==
    /\ []C6_AcceptableIffCreatedInTime
    /\ [][ /\ (last'.op = "acceptOrder" /\ last'.ok) =>
                /\ stateOf(wide, last'.orderId) = STATE_CREATED
                /\ NumLeq(Num(height), deadlineOf(wide, last'.orderId))
                /\ stateOf(wide', last'.orderId) = STATE_ACCEPTED
                /\ buyerOf(narrow', last'.orderId) = last'.sender
                /\ acceptedAtOf(wide', last'.orderId) = Num(height)
                /\ ~ acceptOrderAsserts(wide', last'.orderId)
           /\ \A id \in AllIds : State(id) \notin {0, STATE_CREATED} => StateNext(id) # STATE_CREATED
         ]_vars

\* the order's own seller has just accepted it, exactly at its deadline
C6_Witness ==
    /\ last.op = "acceptOrder" /\ last.ok
    /\ last.sender = sellerOf(narrow, last.orderId)
    /\ Num(height) = deadlineOf(wide, last.orderId)
    /\ \E id \in ExistingIds : State(id) = STATE_CREATED /\ NumLess(Deadline(id), Num(height))

\* who passes the checks of cancelOrder, state by state
C7_CancellableBySellerOrBuyer ==
    \A id \in ExistingIds :
        /\ State(id) \in {STATE_CREATED, STATE_ACCEPTED, STATE_FUNDED, STATE_DISPUTED} =>
              /\ Seller(id) \in Callers
              /\ cancelOrderAsserts(wide, narrow, Seller(id), Num(id))
              /\ stateOf(cancelOrderWide(wide, Num(id)), Num(id)) = STATE_CANCELLED
              /\ Buyer(id) # ZeroAddress => cancelOrderAsserts(wide, narrow, Buyer(id), Num(id))
        /\ State(id) \in {STATE_COMPLETED, STATE_CANCELLED} =>
              \A sender \in Callers : ~ cancelOrderAsserts(wide, narrow, sender, Num(id))

\* C7: on a Created, Accepted, Funded or Disputed order cancelOrder passes its
\* checks for the seller and for the recorded buyer, and on success the order is
\* Cancelled with locked 0; on a Completed or Cancelled order it fails for
\* every caller.
C7_CancelOrder ==
    /\ []C7_CancellableBySellerOrBuyer
    /\ [][ (last'.op = "cancelOrder" /\ last'.ok) =>
              /\ stateOf(wide', last'.orderId) = STATE_CANCELLED
              /\ lockedOf(wide', last'.orderId) = Zero
         ]_vars

\* a Disputed order stands next to one just cancelled by its buyer, who is not
\* its seller
C7_Witness ==
    /\ last.op = "cancelOrder" /\ last.ok
    /\ last.sender = buyerOf(narrow, last.orderId)
    /\ last.sender # sellerOf(narrow, last.orderId)
    /\ \E id \in ExistingIds : State(id) = STATE_DISPUTED

\* C8: a successful createOrder returns the previous orderCount + 1, which is
\* orderCount after the call; orderCount never decreases and only a successful
\* createOrder changes it.
C8_OrderIds ==
    [][ LET count == toU64(orderCountValue(wide))
            countNext == toU64(orderCountValue(wide'))
        IN  /\ (last'.op = "createOrder" /\ last'.ok) =>
                  /\ last'.ret = NumAdd(count, Num(1))
                  /\ last'.ret = countNext
                  /\ \A id \in ExistingIds : NumLess(Num(id), last'.ret)
            /\ NumLeq(count, countNext)
            /\ count # countNext => (last'.op = "createOrder" /\ last'.ok)
      ]_vars

\* the second order has just been created
C8_Witness == last.op = "createOrder" /\ last.ok /\ last.ret = Num(2) /\ OrderCount = 2

\* the exact sum of a field over a set of ids
RECURSIVE C9_Sum(_, _)
C9_Sum(ids, field) ==
    IF ids = {} THEN Zero
    ELSE LET id == CHOOSE i \in ids : TRUE
         IN  NumAdd(field[id], C9_Sum(ids \ {id}, field))

C9_LockedIds == {id \in ExistingIds : State(id) \in {STATE_FUNDED, STATE_DISPUTED}}

C9_LockedSum == C9_Sum(C9_LockedIds, [id \in ExistingIds |-> Locked(id)])

C9_PriceSum == C9_Sum(C9_LockedIds, [id \in ExistingIds |-> Price(id)])

C9_Created == {id \in AllIds : State(id) # 0}

\* C9 as stated: after any sequence of operations getEscrowStats returns
\* totalLocked = contractBalance = the sum of locked (= the sum of the prices)
\* over the Funded and Disputed orders, and orderCount = the number of orders
\* created.
C9_StatsAlwaysReturned ==
    last.op = "getEscrowStats" =>
        /\ last.ok
        /\ last.ret = <<C9_LockedSum, C9_LockedSum, Num(Cardinality(C9_Created))>>
        /\ C9_LockedSum = C9_PriceSum

\* C9 (amended): the same, whenever that sum fits 256 bits; when it does not,
\* the checked addition reverts the call.
C9_StatsUnlessOverflow ==
    last.op = "getEscrowStats" =>
        /\ C9_LockedSum = C9_PriceSum
        /\ last.ok <=> NumLess(C9_LockedSum, <<1, 0, 0>>)
        /\ last.ok => last.ret = <<C9_LockedSum, C9_LockedSum, Num(Cardinality(C9_Created))>>

\* getEscrowStats has just returned 800 for a Funded order of price 500 and a
\* Disputed order of price 300
C9_Witness ==
    /\ last.op = "getEscrowStats" /\ last.ok
    /\ last.ret = <<Num(800), Num(800), Num(2)>>
    /\ \E i, j \in ExistingIds :
          /\ State(i) = STATE_FUNDED /\ Price(i) = Num(500)
          /\ State(j) = STATE_DISPUTED /\ Price(j) = Num(300)

C11_SameField(a, b) ==
    /\ a.fieldKind = b.fieldKind
    /\ a.fieldKind = "orderCount" \/ a.orderId = b.orderId

\* every (fieldKind, orderId) pair of the supported range, the counter once
C11_AllPairs ==
    {<<k, i>> : k \in OrderFieldKinds, i \in 1..MaxSupportedId} \cup {<<"orderCount", 1>>}

\* the slots of the whole supported range are as many as the pairs
C11_RangeDistinct ==
    Cardinality({resolve(p[1], Num(p[2])) : p \in C11_AllPairs}) = Cardinality(C11_AllPairs)

\* C11: the storage-key mapping is injective over the supported range
\* 1..9899: two different (fieldKind, orderId) pairs never resolve to the same
\* slot, wide or narrow.
C11_ResolveInjective ==
    last.op = "resolve" =>
        /\ C11_SameField(inputs.a, inputs.b) <=> last.ret[1] = last.ret[2]
        /\ C11_RangeDistinct

\* the last seller slot of the range and the first buyer slot have been resolved
C11_Witness ==
    /\ last.op = "resolve"
    /\ inputs.a = [fieldKind |-> "seller", orderId |-> Num(MaxSupportedId)]
    /\ inputs.b = [fieldKind |-> "buyer", orderId |-> Num(1)]
    /\ last.ret = <<(<<"narrow", 9999>>), (<<"narrow", 10001>>)>>

\* ---- C12 ----------------------------------------------------------------------
\* the store with the order counter at 2^64 - 1
C12_CounterAtMax == StoreU256(wide, PTR_ORDER_COUNT, EmptySubPtr, fromU64(U64_MAX))

\* createOrder goes through only when both 64-bit sums fit
C12_OverflowAborts ==
    \A price \in inputs.price, deadlineBlocks \in inputs.deadlineBlocks :
        /\ ~ NumLeq(NumAdd(Num(height), deadlineBlocks), U64_MAX)
              => ~ createOrderAsserts(wide, price, deadlineBlocks)
        /\ ~ createOrderAsserts(C12_CounterAtMax, price, deadlineBlocks)
        /\ createOrderAsserts(wide, price, deadlineBlocks) =>
              /\ NumLeq(createOrderId(wide), U64_MAX)
              /\ deadlineOf(createOrderWide(wide, price, deadlineBlocks), createOrderId(wide))
                    = NumAdd(Num(height), deadlineBlocks)

\* C12: createOrder never wraps 64-bit arithmetic: when orderCount + 1 or
\* height + deadlineBlocks exceeds 2^64 - 1 the call aborts, and the aborted
\* call leaves orderCount and every field of every order as they were; the
\* deadline a successful call stores is the exact sum.
C12_NoSilentWrap ==
    /\ []C12_OverflowAborts
    /\ [][ /\ (last'.op = "createOrder" /\ ~ last'.ok) =>
                /\ orderCountValue(wide') = orderCountValue(wide)
                /\ wide' = wide
                /\ narrow' = narrow
           /\ (last'.op = "createOrder" /\ last'.ok) =>
                /\ last'.ret = NumAdd(toU64(orderCountValue(wide)), Num(1))
                /\ NumLeq(Num(height), deadlineOf(wide', last'.ret))
                /\ NumLeq(deadlineOf(wide', last'.ret), U64_MAX)
         ]_vars

\* a createOrder has just aborted on the deadline sum at height 8, in a store
\* that holds an order whose deadline is exactly 2^64 - 1
C12_Witness ==
    /\ last.op = "createOrder" /\ ~ last.ok
    /\ height > 1
    /\ \E id \in ExistingIds : Deadline(id) = U64_MAX
    /\ \A price \in inputs.price, deadlineBlocks \in inputs.deadlineBlocks :
          ~ createOrderAsserts(wide, price, deadlineBlocks)
              <=> ~ NumLeq(NumAdd(Num(height), deadlineBlocks), U64_MAX)

\* ---- C13 ----------------------------------------------------------------------
\* what getOrder returns for an order nobody has written
C13_Blank(orderId) ==
    [orderId    |-> orderId,
     seller     |-> ZeroAddress,
     buyer      |-> ZeroAddress,
     price      |-> Zero,
     locked     |-> Zero,
     state      |-> 0,
     deadline   |-> Zero,
     acceptedAt |-> Zero]

\* ids to read: every id the callers use, and the ids whose seller pointer
\* 100 + id is the buyer pointer 10000 + i of one of the first orders
C13_ReadIds == AllIds \cup {PTR_BUYER_BASE - PTR_SELLER_BASE + i : i \in 1..MaxOrders}

\* C13: in every reachable state getOrder(id) for id = 0 or id > orderCount
\* returns the zero address for seller and buyer and 0 for price, locked,
\* state, deadline and acceptedAt (no operation writes a field of an id
\* outside 1..orderCount).
C13_NonexistentReadsBlank ==
    \A id \in C13_ReadIds :
        (id = 0 \/ id > OrderCount) => getOrder(wide, narrow, Num(id)) = C13_Blank(Num(id))

\* ---- C14 ----------------------------------------------------------------------
\* what getOrder returns right after createOrder(price, deadlineBlocks) by
\* sender, for every input the call accepts
C14_CreateReadsBack ==
    \A sender \in SenderInputs(narrow), price \in inputs.price, deadlineBlocks \in inputs.deadlineBlocks :
        createOrderAsserts(wide, price, deadlineBlocks) =>
            LET orderId == createOrderId(wide)
            IN  getOrder(createOrderWide(wide, price, deadlineBlocks),
                         createOrderNarrow(wide, narrow, sender), orderId)
                  = [orderId    |-> orderId,
                     seller     |-> sender,
                     buyer      |-> ZeroAddress,
                     price      |-> price,
                     locked     |-> Zero,
                     state      |-> STATE_CREATED,
                     deadline   |-> NumAdd(Num(height), deadlineBlocks),
                     acceptedAt |-> Zero]

C15_Ids == {id \in C13_ReadIds : 1 <= id /\ id <= 65335}

\* C15: the address-slot scheme supports 65335 orders per address field: the
\* seller pointer u16(100 + N) and the buyer pointer u16(10000 + M) of ids in
\* 1..65335 are different slots, and so are the pointers of different orders
\* for the same field, so a call that writes the seller or buyer of one order
\* never changes the seller or buyer read back for another id.
C15_AddressSlotsApart ==
    [][ \A id \in C15_Ids :
            LET written == IF last'.op = "createOrder" THEN last'.ret ELSE last'.orderId
            IN  (last'.ok /\ last'.op \in {"createOrder", "acceptOrder"} /\ written # Num(id)) =>
                    /\ sellerOf(narrow', Num(id)) = sellerOf(narrow, Num(id))
                    /\ buyerOf(narrow', Num(id)) = buyerOf(narrow, Num(id))
      ]_vars

\* ---- C16 ----------------------------------------------------------------------
\* the statement sequences agree with the guards of the actions
C16_StepsAgreeWithAsserts ==
    /\ \A price \in inputs.price, deadlineBlocks \in inputs.deadlineBlocks :
          Aborts(createOrderSteps(wide, price, deadlineBlocks))
              <=> ~ createOrderAsserts(wide, price, deadlineBlocks)
    /\ \A sender \in Callers, orderId \in OrderIdInputs :
          /\ Aborts(acceptOrderSteps(wide, orderId)) <=> ~ acceptOrderAsserts(wide, orderId)
          /\ Aborts(fundOrderSteps(wide, narrow, sender, orderId))
                <=> ~ fundOrderAsserts(wide, narrow, sender, orderId)
          /\ Aborts(confirmCompletionSteps(wide, narrow, sender, orderId))
                <=> ~ confirmCompletionAsserts(wide, narrow, sender, orderId)
          /\ Aborts(cancelOrderSteps(wide, narrow, sender, orderId))
                <=> ~ cancelOrderAsserts(wide, narrow, sender, orderId)
          /\ Aborts(openDisputeSteps(wide, narrow, sender, orderId))
                <=> ~ openDisputeAsserts(wide, narrow, sender, orderId)

\* a call that reverts has executed no write
C16_NoWriteBeforeAbort(steps) ==
    Aborts(steps) => \A i \in DOMAIN Executed(steps) : Executed(steps)[i].kind # "write"

\* C16: in each mutating operation every check that can abort the call is
\* evaluated before the operation's first storage write, so no call aborts
\* after it has issued a write.
C16_ValidateBeforeWrite ==
    /\ \A price \in inputs.price, deadlineBlocks \in inputs.deadlineBlocks :
          C16_NoWriteBeforeAbort(createOrderSteps(wide, price, deadlineBlocks))
    /\ \A sender \in Callers, orderId \in OrderIdInputs :
          /\ C16_NoWriteBeforeAbort(acceptOrderSteps(wide, orderId))
          /\ C16_NoWriteBeforeAbort(fundOrderSteps(wide, narrow, sender, orderId))
          /\ C16_NoWriteBeforeAbort(confirmCompletionSteps(wide, narrow, sender, orderId))
          /\ C16_NoWriteBeforeAbort(cancelOrderSteps(wide, narrow, sender, orderId))
          /\ C16_NoWriteBeforeAbort(openDisputeSteps(wide, narrow, sender, orderId))

\* ---- C17 ----------------------------------------------------------------------
\* the order has been funded or closed: fundOrder has run on it, or never can
C17_PastFunding(id) ==
    State(id) \in {STATE_FUNDED, STATE_DISPUTED, STATE_COMPLETED, STATE_CANCELLED}

C17_PastFundingNext(id) ==
    StateNext(id) \in {STATE_FUNDED, STATE_DISPUTED, STATE_COMPLETED, STATE_CANCELLED}

\* C17: fundOrder succeeds at most once per order (it needs an Accepted order
\* with nothing locked, leaves it Funded, and no order comes back from Funded
\* or beyond), and a locked amount that has returned to 0 stays 0: it is
\* released only by confirmCompletion or cancelOrder, into Completed or
\* Cancelled, where locked stays 0 and no fundOrder succeeds.
C17_NoDoubleSpend ==
    [][ \A id \in AllIds :
            LET funded == last'.ok /\ last'.op = "fundOrder" /\ last'.orderId = Num(id)
            IN  /\ funded =>
                      /\ State(id) = STATE_ACCEPTED /\ Locked(id) = Zero
                      /\ StateNext(id) = STATE_FUNDED /\ LockedNext(id) = Price(id)
                /\ C17_PastFunding(id) => (C17_PastFundingNext(id) /\ ~ funded)
                /\ (Locked(id) # Zero /\ LockedNext(id) # Locked(id)) =>
                      /\ LockedNext(id) = Zero
                      /\ last'.ok /\ last'.orderId = Num(id)
                      /\ \/ last'.op = "confirmCompletion" /\ StateNext(id) = STATE_COMPLETED
                         \/ last'.op = "cancelOrder" /\ StateNext(id) = STATE_CANCELLED
                /\ State(id) \in {STATE_COMPLETED, STATE_CANCELLED} =>
                      /\ StateNext(id) = State(id)
                      /\ LockedNext(id) = Zero
                      /\ \A sender \in Callers : ~ fundOrderAsserts(wide', narrow', sender, Num(id))
      ]_vars

\* a fundOrder has just failed while one order is Completed and the other is
\* Cancelled after it had a buyer, both with nothing locked
C17_Witness ==
    /\ last.op = "fundOrder" /\ ~ last.ok
    /\ \E i, j \in ExistingIds :
          /\ State(i) = STATE_COMPLETED /\ Locked(i) = Zero /\ Price(i) # Zero
          /\ State(j) = STATE_CANCELLED /\ Locked(j) = Zero /\ Buyer(j) # ZeroAddress

\* ---- C18 ----------------------------------------------------------------------
\* a Created order whose deadline lies before the current height
C18_Expired(id) == State(id) = STATE_CREATED /\ NumLess(Deadline(id), Num(height))

C18_ExpiredNext(id) == StateNext(id) = STATE_CREATED /\ NumLess(DeadlineNext(id), Num(height'))

C19_Calls ==
    {[op |-> op, sender |-> sender, id |-> id] :
        op \in OrderOps, sender \in SenderInputs(narrow), id \in AllIds}

C19_Run(c, w, n) == callOrderOp(c.op, w, n, c.sender, Num(c.id))

\* every call with its outcome on the current store
C19_Outcomes == {<<c, C19_Run(c, wide, narrow)>> : c \in C19_Calls}

\* a call that fails leaves the store as it is
C19_FailureWritesNothing(p) == p[2].ok \/ (p[2].wide = wide /\ p[2].narrow = narrow)

\* a call on an order leaves the counter and every other order as they were
C19_LeavesOthers(p) ==
    /\ orderCountValue(p[2].wide) = orderCountValue(wide)
    /\ \A other \in ExistingIds \ {p[1].id} :
          getOrder(p[2].wide, p[2].narrow, Num(other)) = getOrder(wide, narrow, Num(other))

\* p1 succeeds on the current store: its call and then that of p2, against the
\* call of p2 and then that of p1 (which, after a p2 that failed and so wrote
\* nothing, is the call of p1 on the current store)
C19_Commute(p1, p2) ==
    LET then2 == C19_Run(p2[1], p1[2].wide, p1[2].narrow)
        then1 == IF p2[2].ok THEN C19_Run(p1[1], p2[2].wide, p2[2].narrow) ELSE p1[2]
    IN  /\ p1[2].ok = then1.ok
        /\ p2[2].ok = then2.ok
        /\ then2.wide = then1.wide
        /\ then2.narrow = then1.narrow

C20_AcceptedAtBounds ==
    \A id \in ExistingIds :
        /\ NumLeq(AcceptedAt(id), Deadline(id))
        /\ Buyer(id) = ZeroAddress => AcceptedAt(id) = Zero
        /\ Buyer(id) # ZeroAddress =>
              /\ NumLeq(AcceptedAt(id), Num(height))
              /\ State(id) # STATE_CREATED

====
